---- MODULE Spec2Model ----
(***************************************************************************)
(* Model of the training notebook "Instrument W&B/01_intro_starter.ipynb": *)
(* train_model(config), validate_model(model, valid_dl, loss_func) and the *)
(* notebook cells that mutate config and call train_model.                 *)
(*                                                                         *)
(* train_model is modelled call by call: pc names the next call the        *)
(* function makes, every such call may raise, and trace is the sequence of *)
(* calls made so far by the current train_model call (tracking client      *)
(* calls and model/optimizer calls).  Tensors are modelled by exact        *)
(* rationals (floating point rounding is not modelled); the training loss  *)
(* tensor is identified by the forward pass that produced it.              *)
(***************************************************************************)
EXTENDS Integers, Sequences, FiniteSets, TLC

VARIABLES
    config,      \* the notebook's global config (SimpleNamespace)
    status,      \* of the current/last train_model call: none, running, returned, raised
    pc,          \* next call the running train_model makes
    call,        \* number of train_model calls started (notebook cells executed)
    trace,       \* calls made by the current train_model call, in order
    wandb_open,  \* tracking client: a Run is open (init without finish)
    train_n,     \* len(train_dl.dataset)
    valid_n,     \* len(valid_dl.dataset)
    n_steps_per_epoch,
    model,       \* [mode, params]: nn.Module training flag, number of optimizer updates applied
    example_ct,
    epoch,       \* loop variable of range(config.epochs)
    step,        \* batches taken from train_dl in the current epoch
    batch,       \* size of the current training batch (len(images))
    n_fwd,       \* forward passes made by the current call (identifies loss tensors)
    train_loss,  \* the loss tensor of the current step
    vstep,       \* batches taken from valid_dl in the current validation pass
    val_loss,    \* validate_model's accumulator (rational)
    correct,     \* validate_model's accumulator
    val_result,  \* <<val_loss, accuracy>> returned by validate_model
    exc,         \* the exception that left train_model ("none": no exception)
    vdata        \* SpecVal only: what the network yields on each validation example

vars == <<config, status, pc, call, trace, wandb_open, train_n, valid_n,
          n_steps_per_epoch, model, example_ct, epoch, step, batch, n_fwd,
          train_loss, vstep, val_loss, correct, val_result, exc, vdata>>

locals == <<train_n, valid_n, n_steps_per_epoch, model, example_ct, epoch,
            step, batch, n_fwd, train_loss, vstep, val_loss, correct, val_result>>

(* ------------------------------ bounds -------------------------------- *)
MaxEpochs == 2
MaxBatchSize == 2
MaxSliceSize == 4
MaxRuns == 2
MaxLoss == 1

(* ------------------------- program constants --------------------------- *)
OUTPUT_SIZE == 5

Classes == 1..OUTPUT_SIZE

(* valid_pct in percent; lr in units of 1e-5; dropout in percent *)
ValidPcts == {0, 25, 50, 75}
LR_DEFAULT == 1
DROPOUT_DEFAULT == 50

(* ----------------------------- rationals ------------------------------- *)
RECURSIVE GCD(_, _)
GCD(a, b) == IF b = 0 THEN a ELSE GCD(b, a % b)

Rat(n, d) == LET g == GCD(n, d) IN IF g = 0 THEN [n |-> n, d |-> d] ELSE [n |-> n \div g, d |-> d \div g]
RInt(k) == [n |-> k, d |-> 1]
RAdd(x, y) == Rat(x.n * y.d + y.n * x.d, x.d * y.d)
RMul(x, y) == Rat(x.n * y.n, x.d * y.d)
RDiv(x, k) == Rat(x.n, x.d * k)
RLeq(x, y) == x.n * y.d <= y.n * x.d
REq(x, y) == x.n * y.d = y.n * x.d

RECURSIVE SumOver(_, _)
SumOver(f, S) ==
    IF S = {} THEN 0
    ELSE LET lo == CHOOSE i \in S : \A j \in S : i <= j
             hi == CHOOSE i \in S : \A j \in S : j <= i
             mid == (lo + hi) \div 2
         IN  IF lo = hi THEN f[lo]
             ELSE SumOver(f, {i \in S : i <= mid}) + SumOver(f, {i \in S : i > mid})


(* ----------------- Data Provider (utilities.get_dataloaders) ----------- *)
(* The dataset slice is split into a validation part of int(slice * pct)   *)
(* examples and a training part of the rest; both are served in batches of *)
(* batch_size, the last batch holding the remainder.                       *)
ValidSize(slice_size, valid_pct) == (slice_size * valid_pct) \div 100
TrainSize(slice_size, valid_pct) == slice_size - ValidSize(slice_size, valid_pct)

(* mutant: integer division, the partial last batch is not counted *)
CeilDiv_Floor(a, b) == a \div b

(* math.ceil(a / b) *)
CeilDiv(a, b) == (a + b - 1) \div b

NumBatches(n, bs) == CeilDiv(n, bs)

BatchLen(n, bs, k) == IF k * bs <= n THEN bs ELSE n - (k - 1) * bs

(* indices (1-based, in stream order) of the examples of the k-th batch *)
BatchIdx(n, bs, k) == ((k - 1) * bs + 1)..((k - 1) * bs + BatchLen(n, bs, k))

(* label of the i-th validation example *)
ValidLabel(i) == ((i - 1) % OUTPUT_SIZE) + 1

(* ------------------------------ model ---------------------------------- *)
LogitValues == {0, 1}

(* logits the network may produce for one example: one value per class *)
LogitVectors == {v \in [Classes -> LogitValues] : Cardinality({c \in Classes : v[c] # 0}) <= 2}

(* torch.max(outputs.data, 1): index of the first maximal value of a row *)
Argmax(v) == CHOOSE c \in Classes :
                /\ \A o \in Classes : v[o] <= v[c]
                /\ \A o \in Classes : o < c => v[o] < v[c]

(* nn.CrossEntropyLoss(): mean over the batch of the per-example losses *)
loss_func(ls, idx) == Rat(SumOver(ls, idx), Cardinality(idx))

(* (predicted == labels).sum().item() *)
NumCorrect(outs, idx) == Cardinality({i \in idx : Argmax(outs[i]) = ValidLabel(i)})

Ev(op, arg) == [op |-> op, arg |-> arg]

Configurations ==
    [epochs : 0..MaxEpochs, batch_size : 1..MaxBatchSize, lr : {LR_DEFAULT},
     dropout : {DROPOUT_DEFAULT}, slice_size : 1..MaxSliceSize, valid_pct : ValidPcts]

NoTensor == [fwd |-> 0]

FreshLocals ==
    /\ train_n = 0 /\ valid_n = 0 /\ n_steps_per_epoch = 0
    /\ model = [mode |-> "none", params |-> 0]
    /\ example_ct = 0 /\ epoch = 0 /\ step = 0 /\ batch = 0 /\ n_fwd = 0
    /\ train_loss = NoTensor /\ vstep = 0 /\ val_loss = RInt(0) /\ correct = 0
    /\ val_result = <<>>

Init ==
    /\ config \in Configurations
    /\ status = "none"
    /\ pc = "idle"
    /\ call = 0
    /\ trace = <<>>
    /\ wandb_open = FALSE
    /\ FreshLocals
    /\ exc = "none"
    /\ vdata = <<>>


(* --------------------------- notebook cells ---------------------------- *)
(* cell 8: train_model(config); cells 9, 10: config.lr = 1e-4;             *)
(* cell 11: config.dropout = 0.1, config.epochs = 1; cell 12: config.lr =  *)
(* 1e-3; each then calls train_model(config).                              *)
CellConfig(cell) ==
    CASE cell = 8 -> config
      [] cell \in {9, 10} -> [config EXCEPT !.lr = 10]
      [] cell = 11 -> [config EXCEPT !.dropout = 10, !.epochs = 1]
      [] cell = 12 -> [config EXCEPT !.lr = 100]

Cells == {8, 9, 10, 11, 12}

(* a cell runs when no train_model call is in progress: it mutates config  *)
(* and enters train_model. The loop and validation variables start clean;  *)
(* the data, the model and example_ct are whatever the last call left      *)
(* until lines 116-129 (Setup) assign them.                                *)
RunCell(cell) ==
    /\ status # "running"
    /\ call < MaxRuns
    /\ config' = CellConfig(cell)
    /\ status' = "running"
    /\ pc' = "wandb.init"
    /\ call' = call + 1
    /\ trace' = <<>>
    /\ epoch' = 0 /\ step' = 0 /\ batch' = 0 /\ n_fwd' = 0
    /\ train_loss' = NoTensor /\ vstep' = 0 /\ val_loss' = RInt(0) /\ correct' = 0
    /\ val_result' = <<>>
    /\ exc' = "none"
    /\ UNCHANGED <<wandb_open, vdata, train_n, valid_n, n_steps_per_epoch, model, example_ct>>

(* ---------------------------- train_model ------------------------------ *)
At(l) == status = "running" /\ pc = l

(* mutant: train_model overrides a hyperparameter of the config it was given *)
WandbInit_SetLr ==
    /\ At("wandb.init")
    /\ config' = [config EXCEPT !.lr = 10]
    /\ trace' = Append(trace, Ev("wandb.init", config'))
    /\ wandb_open' = TRUE
    /\ pc' = "get_dataloaders"
    /\ UNCHANGED <<vdata, exc, status, call, locals>>

(* wandb.init(project="dlai_intro", config=config) *)
WandbInit ==
    /\ At("wandb.init")
    /\ trace' = Append(trace, Ev("wandb.init", config))
    /\ wandb_open' = TRUE
    /\ pc' = "get_dataloaders"
    /\ UNCHANGED <<vdata, exc, config, status, call, locals>>

(* mutant: example_ct is not set to 0 by train_model *)
Setup_KeepCt ==
    /\ At("get_dataloaders")
    /\ train_n' = TrainSize(config.slice_size, config.valid_pct)
    /\ valid_n' = ValidSize(config.slice_size, config.valid_pct)
    /\ n_steps_per_epoch' = CeilDiv(train_n', config.batch_size)
    /\ model' = [mode |-> "train", params |-> 0]
    /\ epoch' = 0
    /\ pc' = "epoch"
    /\ UNCHANGED <<vdata, exc, config, status, call, trace, wandb_open, example_ct, step,
                   batch, n_fwd, train_loss, vstep, val_loss, correct, val_result>>

(* get_dataloaders, n_steps_per_epoch, get_model, loss_func, Adam, example_ct = 0 *)
Setup ==
    /\ At("get_dataloaders")
    /\ train_n' = TrainSize(config.slice_size, config.valid_pct)
    /\ valid_n' = ValidSize(config.slice_size, config.valid_pct)
    /\ n_steps_per_epoch' = CeilDiv(train_n', config.batch_size)
    /\ model' = [mode |-> "train", params |-> 0]
    /\ example_ct' = 0
    /\ epoch' = 0
    /\ pc' = "epoch"
    /\ UNCHANGED <<vdata, exc, config, status, call, trace, wandb_open, step, batch, n_fwd,
                   train_loss, vstep, val_loss, correct, val_result>>

(* mutant: model.train() is missing from the epoch loop *)
EpochHead_NoTrain ==
    /\ At("epoch")
    /\ epoch < config.epochs
    /\ trace' = Append(trace, Ev("model.train", epoch))
    /\ step' = 0
    /\ pc' = "next_batch"
    /\ UNCHANGED <<vdata, exc, config, status, call, wandb_open, train_n, valid_n,
                   n_steps_per_epoch, model, example_ct, epoch, batch, n_fwd, train_loss,
                   vstep, val_loss, correct, val_result>>

(* mutant: the epoch loop as a do-while, its body run before the test *)
EpochHead_AtLeastOnce ==
    /\ At("epoch")
    /\ (epoch < config.epochs \/ epoch = 0)
    /\ model' = [model EXCEPT !.mode = "train"]
    /\ trace' = Append(trace, Ev("model.train", epoch))
    /\ step' = 0
    /\ pc' = "next_batch"
    /\ UNCHANGED <<vdata, exc, config, status, call, wandb_open, train_n, valid_n, n_steps_per_epoch,
                   example_ct, epoch, batch, n_fwd, train_loss, vstep, val_loss,
                   correct, val_result>>

(* for epoch in range(config.epochs): model.train() *)
EpochHead ==
    /\ At("epoch")
    /\ epoch < config.epochs
    /\ model' = [model EXCEPT !.mode = "train"]
    /\ trace' = Append(trace, Ev("model.train", epoch))
    /\ step' = 0
    /\ pc' = "next_batch"
    /\ UNCHANGED <<vdata, exc, config, status, call, wandb_open, train_n, valid_n, n_steps_per_epoch,
                   example_ct, epoch, batch, n_fwd, train_loss, vstep, val_loss,
                   correct, val_result>>

EpochsDone ==
    /\ At("epoch")
    /\ epoch >= config.epochs
    /\ pc' = "wandb.finish"
    /\ UNCHANGED <<vdata, exc, config, status, call, trace, wandb_open, locals>>

(* for step, (images, labels) in enumerate(train_dl) *)
NextBatch ==
    /\ At("next_batch")
    /\ step < NumBatches(train_n, config.batch_size)
    /\ step' = step + 1
    /\ batch' = BatchLen(train_n, config.batch_size, step + 1)
    /\ trace' = Append(trace, Ev("train_dl.next", batch'))
    /\ pc' = "forward"
    /\ UNCHANGED <<vdata, exc, config, status, call, wandb_open, train_n, valid_n,
                   n_steps_per_epoch, model, example_ct, epoch, n_fwd, train_loss,
                   vstep, val_loss, correct, val_result>>

(* mutant: validation only on the last epoch *)
BatchesDone_LastOnly ==
    /\ At("next_batch")
    /\ step >= NumBatches(train_n, config.batch_size)
    /\ IF epoch + 1 < config.epochs
         THEN pc' = "epoch" /\ epoch' = epoch + 1
         ELSE pc' = "validate_model" /\ epoch' = epoch
    /\ UNCHANGED <<vdata, exc, config, status, call, trace, wandb_open, train_n, valid_n,
                   n_steps_per_epoch, model, example_ct, step, batch, n_fwd, train_loss,
                   vstep, val_loss, correct, val_result>>

(* train_dl is exhausted: validate_model(model, valid_dl, loss_func) is next *)
BatchesDone ==
    /\ At("next_batch")
    /\ step >= NumBatches(train_n, config.batch_size)
    /\ pc' = "validate_model"
    /\ UNCHANGED <<vdata, exc, config, status, call, trace, wandb_open, locals>>

(* mutant: optimizer.zero_grad() is missing *)
Forward_NoZeroGrad ==
    /\ At("forward")
    /\ n_fwd' = n_fwd + 1
    /\ train_loss' = [fwd |-> n_fwd + 1]
    /\ trace' = Append(trace, Ev("forward", model.mode))
    /\ pc' = "backward"
    /\ UNCHANGED <<vdata, exc, config, status, call, wandb_open, train_n, valid_n,
                   n_steps_per_epoch, model, example_ct, epoch, step, batch, vstep,
                   val_loss, correct, val_result>>

(* outputs = model(images); train_loss = loss_func(outputs, labels) *)
Forward ==
    /\ At("forward")
    /\ n_fwd' = n_fwd + 1
    /\ train_loss' = [fwd |-> n_fwd + 1]
    /\ trace' = Append(trace, Ev("forward", model.mode))
    /\ pc' = "zero_grad"
    /\ UNCHANGED <<vdata, exc, config, status, call, wandb_open, train_n, valid_n, n_steps_per_epoch,
                   model, example_ct, epoch, step, batch, vstep, val_loss, correct,
                   val_result>>

ZeroGrad ==
    /\ At("zero_grad")
    /\ trace' = Append(trace, Ev("zero_grad", n_fwd))
    /\ pc' = "backward"
    /\ UNCHANGED <<vdata, exc, config, status, call, wandb_open, locals>>

Backward ==
    /\ At("backward")
    /\ trace' = Append(trace, Ev("backward", train_loss.fwd))
    /\ pc' = "optimizer.step"
    /\ UNCHANGED <<vdata, exc, config, status, call, wandb_open, locals>>

(* mutant: example_ct += config.batch_size instead of len(images) *)
OptimizerStep_FullBatch ==
    /\ At("optimizer.step")
    /\ model' = [model EXCEPT !.params = @ + 1]
    /\ example_ct' = example_ct + config.batch_size
    /\ trace' = Append(trace, Ev("optimizer.step", n_fwd))
    /\ pc' = "wandb.log"
    /\ UNCHANGED <<vdata, exc, config, status, call, wandb_open, train_n, valid_n,
                   n_steps_per_epoch, epoch, step, batch, n_fwd, train_loss, vstep,
                   val_loss, correct, val_result>>

(* optimizer.step(); example_ct += len(images) *)
OptimizerStep ==
    /\ At("optimizer.step")
    /\ model' = [model EXCEPT !.params = @ + 1]
    /\ example_ct' = example_ct + batch
    /\ trace' = Append(trace, Ev("optimizer.step", n_fwd))
    /\ pc' = "wandb.log"
    /\ UNCHANGED <<vdata, exc, config, status, call, wandb_open, train_n, valid_n, n_steps_per_epoch,
                   epoch, step, batch, n_fwd, train_loss, vstep, val_loss, correct,
                   val_result>>

(* mutant: "train/epoch": epoch, the 0-based loop variable *)
metrics_ZeroBased ==
    [k \in {"train/train_loss", "train/epoch", "train/example_ct"} |->
        CASE k = "train/train_loss" -> train_loss
          [] k = "train/epoch" -> epoch
          [] k = "train/example_ct" -> example_ct]

metrics ==
    [k \in {"train/train_loss", "train/epoch", "train/example_ct"} |->
        CASE k = "train/train_loss" -> train_loss
          [] k = "train/epoch" -> epoch + 1
          [] k = "train/example_ct" -> example_ct]

(* mutant: the step's metrics are built but never sent *)
LogStep_NoLog ==
    /\ At("wandb.log")
    /\ pc' = "next_batch"
    /\ UNCHANGED <<vdata, exc, config, status, call, trace, wandb_open, locals>>

(* mutant: the batch loop is left after the first logged step *)
LogStep_Break ==
    /\ At("wandb.log")
    /\ trace' = Append(trace, Ev("wandb.log", metrics))
    /\ pc' = "validate_model"
    /\ UNCHANGED <<vdata, exc, config, status, call, wandb_open, locals>>

(* wandb.log(metrics) *)
LogStep ==
    /\ At("wandb.log")
    /\ trace' = Append(trace, Ev("wandb.log", metrics))
    /\ pc' = "next_batch"
    /\ UNCHANGED <<vdata, exc, config, status, call, wandb_open, locals>>

(* mutant: validate_model takes an optimizer step on entry *)
ValEnter_Updates ==
    /\ At("validate_model")
    /\ model' = [mode |-> "eval", params |-> model.params + 1]
    /\ val_loss' = RInt(0)
    /\ correct' = 0
    /\ vstep' = 0
    /\ val_result' = <<>>
    /\ trace' = Append(trace, Ev("model.eval", epoch))
    /\ pc' = "val_batch"
    /\ UNCHANGED <<vdata, exc, config, status, call, wandb_open, train_n, valid_n,
                   n_steps_per_epoch, example_ct, epoch, step, batch, n_fwd, train_loss>>

(* --------------------------- validate_model ---------------------------- *)
(* model.eval(); val_loss = 0.0; correct = 0 *)
ValEnter ==
    /\ At("validate_model")
    /\ model' = [model EXCEPT !.mode = "eval"]
    /\ val_loss' = RInt(0)
    /\ correct' = 0
    /\ vstep' = 0
    /\ val_result' = <<>>
    /\ trace' = Append(trace, Ev("model.eval", epoch))
    /\ pc' = "val_batch"
    /\ UNCHANGED <<vdata, exc, config, status, call, wandb_open, train_n, valid_n, n_steps_per_epoch,
                   example_ct, epoch, step, batch, n_fwd, train_loss>>

(* mutant: val_loss += loss_func(outputs, labels), not weighted by the batch size *)
AccLoss_Unweighted(acc, ls, idx) == RAdd(acc, loss_func(ls, idx))

(* val_loss += loss_func(outputs, labels) * labels.size(0) *)
AccLoss(acc, ls, idx) == RAdd(acc, RMul(loss_func(ls, idx), RInt(Cardinality(idx))))

(* correct += (predicted == labels).sum().item() *)
AccCorrect(acc, outs, idx) == acc + NumCorrect(outs, idx)

(* the examples of the next validation batch *)
ValIdx == BatchIdx(valid_n, config.batch_size, vstep + 1)

(* one iteration of the loop over valid_dl: the forward pass yields the    *)
(* logits outs[i] and the per-example loss ls[i] of every example i of the *)
(* batch                                                                   *)
ValBatchStep(outs, ls) ==
    /\ At("val_batch")
    /\ vstep < NumBatches(valid_n, config.batch_size)
    /\ val_loss' = AccLoss(val_loss, ls, ValIdx)
    /\ correct' = AccCorrect(correct, outs, ValIdx)
    /\ vstep' = vstep + 1
    /\ n_fwd' = n_fwd + 1
    /\ trace' = Append(trace, Ev("forward", model.mode))
    /\ UNCHANGED <<vdata, exc, config, status, pc, call, wandb_open, train_n, valid_n,
                   n_steps_per_epoch, model, example_ct, epoch, step, batch,
                   train_loss, val_result>>

(* inside a training run the network either puts all its weight on the    *)
(* example's label (loss 0) or on another class (loss MaxLoss); SpecVal    *)
(* runs validate_model over every network in Outcomes                      *)
OneHot(c) == [o \in Classes |-> IF o = c THEN 1 ELSE 0]

OtherClass(c) == (c % OUTPUT_SIZE) + 1

ValBatch ==
    /\ At("val_batch")
    /\ \E hit \in [ValIdx -> BOOLEAN] :
          ValBatchStep([i \in ValIdx |-> IF hit[i] THEN OneHot(ValidLabel(i))
                                                   ELSE OneHot(OtherClass(ValidLabel(i)))],
                       [i \in ValIdx |-> IF hit[i] THEN 0 ELSE MaxLoss])

ValBatchesDone ==
    /\ At("val_batch")
    /\ vstep >= NumBatches(valid_n, config.batch_size)
    /\ pc' = "val_return"
    /\ UNCHANGED <<vdata, exc, config, status, call, trace, wandb_open, locals>>

(* mutant: divides by len(valid_dl), the number of batches *)
ValReturn_ByBatches ==
    /\ At("val_return")
    /\ valid_n # 0
    /\ val_result' = <<RDiv(val_loss, NumBatches(valid_n, config.batch_size)),
                       Rat(correct, NumBatches(valid_n, config.batch_size))>>
    /\ pc' = "wandb.log_val"
    /\ UNCHANGED <<vdata, exc, config, status, call, trace, wandb_open, train_n, valid_n,
                   n_steps_per_epoch, model, example_ct, epoch, step, batch, n_fwd,
                   train_loss, vstep, val_loss, correct>>

(* return val_loss / len(valid_dl.dataset), correct / len(valid_dl.dataset) *)
ValReturn ==
    /\ At("val_return")
    /\ valid_n # 0
    /\ val_result' = <<RDiv(val_loss, valid_n), Rat(correct, valid_n)>>
    /\ pc' = "wandb.log_val"
    /\ UNCHANGED <<vdata, exc, config, status, call, trace, wandb_open, train_n, valid_n,
                   n_steps_per_epoch, model, example_ct, epoch, step, batch, n_fwd,
                   train_loss, vstep, val_loss, correct>>

(* mutant: an empty validation set yields the pair (0, 0) *)
ValDivZero_ReturnsZero ==
    /\ At("val_return")
    /\ valid_n = 0
    /\ val_result' = <<RInt(0), RInt(0)>>
    /\ pc' = "wandb.log_val"
    /\ UNCHANGED <<vdata, exc, config, status, call, trace, wandb_open, train_n, valid_n,
                   n_steps_per_epoch, model, example_ct, epoch, step, batch, n_fwd,
                   train_loss, vstep, val_loss, correct>>

(* ZeroDivisionError: 0.0 / 0 *)
ValDivZero ==
    /\ At("val_return")
    /\ valid_n = 0
    /\ status' = "raised"
    /\ exc' = "ZeroDivisionError"
    /\ UNCHANGED <<vdata, config, pc, call, trace, wandb_open, locals>>

val_metrics ==
    [k \in {"val/val_loss", "val/val_accuracy"} |->
        IF k = "val/val_loss" THEN val_result[1] ELSE val_result[2]]

(* mutant: wandb.finish() indented into the epoch loop *)
ValLog_FinishInLoop ==
    /\ At("wandb.log_val")
    /\ trace' = trace \o <<Ev("wandb.log", val_metrics), Ev("wandb.finish", call)>>
    /\ wandb_open' = FALSE
    /\ epoch' = epoch + 1
    /\ pc' = "epoch"
    /\ UNCHANGED <<vdata, exc, config, status, call, train_n, valid_n, n_steps_per_epoch,
                   model, example_ct, step, batch, n_fwd, train_loss, vstep, val_loss,
                   correct, val_result>>

(* wandb.log(val_metrics); the epoch loop moves on *)
ValLog ==
    /\ At("wandb.log_val")
    /\ trace' = Append(trace, Ev("wandb.log", val_metrics))
    /\ epoch' = epoch + 1
    /\ pc' = "epoch"
    /\ UNCHANGED <<vdata, exc, config, status, call, wandb_open, train_n, valid_n, n_steps_per_epoch,
                   model, example_ct, step, batch, n_fwd, train_loss, vstep, val_loss,
                   correct, val_result>>

(* wandb.finish(): train_model returns *)
WandbFinish ==
    /\ At("wandb.finish")
    /\ trace' = Append(trace, Ev("wandb.finish", call))
    /\ wandb_open' = FALSE
    /\ status' = "returned"
    /\ pc' = "done"
    /\ UNCHANGED <<vdata, exc, config, call, locals>>

(* the call train_model is about to make raises: nothing catches it, the   *)
(* exception leaves train_model                                            *)
CallPoints == {"wandb.init", "get_dataloaders", "next_batch", "forward", "zero_grad",
               "backward", "optimizer.step", "wandb.log", "validate_model",
               "val_batch", "wandb.log_val", "wandb.finish"}

(* mutant: the failing call is caught and tried again *)
Raise_Retry ==
    /\ status = "running"
    /\ pc \in CallPoints
    /\ exc = "none"
    /\ exc' = pc
    /\ UNCHANGED <<vdata, status, config, pc, call, trace, wandb_open, locals>>

(* mutant: train_model wrapped in try/finally: wandb.finish() on the way out *)
Raise_Finally ==
    /\ status = "running"
    /\ pc \in CallPoints
    /\ status' = "raised"
    /\ exc' = pc
    /\ trace' = IF pc = "wandb.init" THEN trace ELSE Append(trace, Ev("wandb.finish", call))
    /\ wandb_open' = (pc = "wandb.init" /\ wandb_open)
    /\ UNCHANGED <<vdata, config, pc, call, locals>>

Raise ==
    /\ status = "running"
    /\ pc \in CallPoints
    /\ status' = "raised"
    /\ exc' = pc
    /\ UNCHANGED <<vdata, config, pc, call, trace, wandb_open, locals>>

Next ==
    \/ \E cell \in Cells : RunCell(cell)
    \/ WandbInit
    \/ Setup
    \/ EpochHead
    \/ EpochsDone
    \/ NextBatch
    \/ BatchesDone
    \/ Forward
    \/ ZeroGrad
    \/ Backward
    \/ OptimizerStep
    \/ LogStep
    \/ ValEnter
    \/ ValBatch
    \/ ValBatchesDone
    \/ ValReturn
    \/ ValDivZero
    \/ ValLog
    \/ WandbFinish
    \/ Raise

Spec == Init /\ [][Next]_vars

(* ------------- validate_model called on a given network ---------------- *)
(* vdata[i] is what the network, in evaluation mode with its parameters    *)
(* fixed, yields for the i-th validation example: the logits and the       *)
(* example's cross-entropy loss.                                           *)
Outcomes == [logits : LogitVectors, loss : 0..MaxLoss]

InitVal ==
    /\ config \in {c \in Configurations : c.epochs = 1}
    /\ status = "running"
    /\ pc = "validate_model"
    /\ call = 1
    /\ trace = <<>>
    /\ wandb_open = FALSE
    /\ train_n = TrainSize(config.slice_size, config.valid_pct)
    /\ valid_n = ValidSize(config.slice_size, config.valid_pct)
    /\ n_steps_per_epoch = CeilDiv(train_n, config.batch_size)
    /\ model = [mode |-> "train", params |-> 0]
    /\ example_ct = 0 /\ epoch = 0 /\ step = 0 /\ batch = 0 /\ n_fwd = 0
    /\ train_loss = NoTensor /\ vstep = 0 /\ val_loss = RInt(0) /\ correct = 0
    /\ val_result = <<>>
    /\ exc = "none"
    /\ vdata \in [1..valid_n -> Outcomes]

ValBatchOn ==
    /\ At("val_batch")
    /\ ValBatchStep([i \in ValIdx |-> vdata[i].logits], [i \in ValIdx |-> vdata[i].loss])

NextVal ==
    \/ ValEnter
    \/ ValBatchOn
    \/ ValBatchesDone
    \/ ValReturn
    \/ ValDivZero

SpecVal == InitVal /\ [][NextVal]_vars

(* ------------- the example scenario: one configuration ----------------- *)
(* config = {epochs=1, batch_size=128, slice_size=10000, valid_pct=0.2},   *)
(* run by the notebook's first training cell; the network either gets      *)
(* every validation example right or every one wrong.                      *)
ExampleConfig ==
    [epochs |-> 1, batch_size |-> 128, lr |-> LR_DEFAULT, dropout |-> DROPOUT_DEFAULT,
     slice_size |-> 10000, valid_pct |-> 20]

ExampleValid == 1..ValidSize(ExampleConfig.slice_size, ExampleConfig.valid_pct)

InitEx ==
    /\ config = ExampleConfig
    /\ status = "none"
    /\ pc = "idle"
    /\ call = 0
    /\ trace = <<>>
    /\ wandb_open = FALSE
    /\ FreshLocals
    /\ exc = "none"
    /\ vdata \in {[i \in ExampleValid |-> [logits |-> OneHot(ValidLabel(i)), loss |-> 0]],
                  [i \in ExampleValid |-> [logits |-> OneHot(OtherClass(ValidLabel(i))), loss |-> MaxLoss]]}

NextEx ==
    \/ RunCell(8)
    \/ WandbInit
    \/ Setup
    \/ EpochHead
    \/ EpochsDone
    \/ NextBatch
    \/ BatchesDone
    \/ Forward
    \/ ZeroGrad
    \/ Backward
    \/ OptimizerStep
    \/ LogStep
    \/ ValEnter
    \/ ValBatchOn
    \/ ValBatchesDone
    \/ ValReturn
    \/ ValLog
    \/ WandbFinish
    \/ Raise

SpecEx == InitEx /\ [][NextEx]_vars


(* ======================= properties of the log ========================= *)
IsLog(e) == e.op = "wandb.log"
IsStepRec(r) == "train/example_ct" \in DOMAIN r
IsValRec(r) == "val/val_loss" \in DOMAIN r
IsStepLog(i) == IsLog(trace[i]) /\ IsStepRec(trace[i].arg)
IsValLog(i) == IsLog(trace[i]) /\ IsValRec(trace[i].arg)

(* number of calls op among the first n calls of the trace *)
Count(op, n) == Cardinality({i \in 1..n : trace[i].op = op})
NumStepLogs(n) == Cardinality({i \in 1..n : IsStepLog(i)})
NumValLogs(n) == Cardinality({i \in 1..n : IsValLog(i)})

(* sum of len(images) over the training batches taken among the first n calls *)
RECURSIVE ExamplesSeen(_)
ExamplesSeen(n) ==
    IF n = 0 THEN 0
    ELSE ExamplesSeen(n - 1) + (IF trace[n].op = "train_dl.next" THEN trace[n].arg ELSE 0)

(* C1: a completed train_model call has made one wandb.log call per        *)
(* training batch and one per epoch: epochs * steps-per-epoch + epochs.    *)
C1_LogCount ==
    status = "returned" =>
        /\ NumStepLogs(Len(trace)) = Count("train_dl.next", Len(trace))
        /\ NumStepLogs(Len(trace)) = config.epochs * n_steps_per_epoch
        /\ NumValLogs(Len(trace)) = config.epochs
        /\ Count("wandb.log", Len(trace)) = config.epochs * n_steps_per_epoch + config.epochs

C1_Witness ==
    /\ status = "returned" /\ config.epochs = 2
    /\ train_n = 3 /\ config.batch_size = 2
    /\ Count("wandb.log", Len(trace)) = 6

(* C2: the example count of every per-step record is the sum of the sizes  *)
(* of all training batches taken so far in the call, epochs before         *)
(* included, and it never decreases from one per-step record to the next.  *)
C2_ExampleCt ==
    \A i \in 1..Len(trace) : IsStepLog(i) =>
        /\ trace[i].arg["train/example_ct"] = ExamplesSeen(i)
        /\ \A j \in 1..i : IsStepLog(j) =>
              trace[j].arg["train/example_ct"] <= trace[i].arg["train/example_ct"]

C2_Witness ==
    /\ status = "returned" /\ config.epochs = 2
    /\ train_n = 3 /\ config.batch_size = 2
    /\ \E i \in 1..Len(trace) : IsStepLog(i) /\ trace[i].arg["train/example_ct"] = 6

(* C3: the k-th validation record comes after every per-step record of     *)
(* epochs 1..k and before every per-step record of later epochs; when it   *)
(* is logged every batch of the epoch has been logged; each epoch has one  *)
(* validation record, and a completed call with epochs >= 1 logs a         *)
(* validation record last.                                                 *)
C3_ValAfterSteps ==
    /\ \A i, j \in 1..Len(trace) : (IsStepLog(i) /\ IsValLog(j)) =>
          ((i < j) <=> (trace[i].arg["train/epoch"] <= NumValLogs(j)))
    /\ \A j \in 1..Len(trace) : IsValLog(j) =>
          /\ NumValLogs(j) = Count("model.train", j)
          /\ NumStepLogs(j) = NumValLogs(j) * NumBatches(train_n, config.batch_size)
    /\ Count("model.train", Len(trace)) - NumValLogs(Len(trace)) \in {0, 1}
    /\ (status = "returned" /\ config.epochs >= 1) =>
          /\ NumValLogs(Len(trace)) = config.epochs
          /\ IsValLog(Len(trace) - 1)
          /\ trace[Len(trace)].op = "wandb.finish"

C3_Witness ==
    /\ status = "returned" /\ config.epochs = 2 /\ n_steps_per_epoch = 2
    /\ NumValLogs(Len(trace)) = 2


(* C4: every wandb.log of a call comes after the call's wandb.init and     *)
(* before its wandb.finish, while the Run is open; init is the first call  *)
(* and is made once; a completed call has made finish once, as its last    *)
(* call.                                                                   *)
C4_InitLogFinish ==
    /\ \A i \in 1..Len(trace) : IsLog(trace[i]) =>
          /\ Count("wandb.init", i) = 1
          /\ Count("wandb.finish", i) = 0
    /\ Count("wandb.init", Len(trace)) <= 1
    /\ (trace # <<>>) => trace[1].op = "wandb.init"
    /\ (status = "running" /\ Count("wandb.log", Len(trace)) > 0) => wandb_open
    /\ status = "returned" =>
          /\ Count("wandb.init", Len(trace)) = 1
          /\ Count("wandb.finish", Len(trace)) = 1
          /\ trace[Len(trace)].op = "wandb.finish"
          /\ ~wandb_open

C4_Witness ==
    /\ status = "returned" /\ call = 2
    /\ Count("wandb.log", Len(trace)) >= 4

(* C5: every per-step record has exactly the keys train/train_loss,        *)
(* train/epoch and train/example_ct; its loss is the loss of the step's    *)
(* own forward pass; its epoch is the number of the epoch it is logged in  *)
(* (epochs counted from 1 by their model.train() calls), lies in           *)
(* 1..config.epochs and never decreases along the log.                     *)
C5_StepRecord ==
    \A i \in 1..Len(trace) : IsStepLog(i) =>
        LET r == trace[i].arg IN
        /\ DOMAIN r = {"train/train_loss", "train/epoch", "train/example_ct"}
        /\ r["train/train_loss"] = [fwd |-> Count("forward", i)]
        /\ r["train/epoch"] = Count("model.train", i)
        /\ r["train/epoch"] \in 1..config.epochs
        /\ \A j \in 1..i : IsStepLog(j) => trace[j].arg["train/epoch"] <= r["train/epoch"]

C5_Witness ==
    /\ config.epochs = 2
    /\ \E i \in 1..Len(trace) : IsStepLog(i) /\ trace[i].arg["train/epoch"] = 2
    /\ \E i \in 1..Len(trace) : IsStepLog(i) /\ trace[i].arg["train/epoch"] = 1

(* C6: once a call made by train_model has failed, the exception has left  *)
(* train_model (the call has ended as raised) and that train_model call    *)
(* does nothing more: no training step, no validation pass, no wandb.log,  *)
(* no retry. Only a later cell can start another call.                     *)
C6_AbortsRun ==
    /\ [](exc # "none" => status = "raised")
    /\ [][(exc # "none" /\ call' = call) =>
             /\ status' = "raised" /\ exc' = exc
             /\ UNCHANGED <<pc, trace, wandb_open, locals>>]_vars

C6_Witness ==
    /\ status = "raised" /\ exc = "wandb.log"
    /\ epoch < config.epochs
    /\ Count("wandb.log", Len(trace)) = 1

(* C7: the accumulated count of correct predictions stays within           *)
(* 0..len(valid_dl.dataset); the accuracy validate_model returns is in     *)
(* [0, 1] and the loss it returns is >= 0.                                 *)
C7_AccuracyRange ==
    /\ 0 <= correct /\ correct <= valid_n
    /\ RLeq(RInt(0), val_loss)
    /\ val_result # <<>> =>
          /\ RLeq(RInt(0), val_result[1])
          /\ RLeq(RInt(0), val_result[2])
          /\ RLeq(val_result[2], RInt(1))

C7_Witness ==
    /\ val_result # <<>>
    /\ valid_n = 3 /\ config.batch_size = 2
    /\ val_result[2] = RInt(1)

(* the examples of the k-th validation batch *)
ValBatchIdx(k) == BatchIdx(valid_n, config.batch_size, k)

RECURSIVE WeightedBatchLosses(_)
WeightedBatchLosses(k) ==
    IF k = 0 THEN RInt(0)
    ELSE LET size == Cardinality(ValBatchIdx(k))
             mean == [n |-> SumOver([i \in ValBatchIdx(k) |-> vdata[i].loss], ValBatchIdx(k)), d |-> size]
         IN  RAdd(WeightedBatchLosses(k - 1), RMul(mean, RInt(size)))

PredictsLabel(i) ==
    LET v == vdata[i].logits
        y == ValidLabel(i)
    IN  /\ \A c \in Classes : v[c] <= v[y]
        /\ \A c \in Classes : c < y => v[c] < v[y]

(* C8: validate_model returns the batch losses weighted by batch size,    *)
(* summed and divided by the dataset size, which is the mean of the        *)
(* per-example losses over the whole validation set, and the number of     *)
(* examples whose label is the first class of maximal logit divided by the *)
(* dataset size; also when the last batch is smaller than the others.      *)
C8_MeanOverDataset ==
    val_result # <<>> =>
        /\ REq(val_result[1], RDiv(WeightedBatchLosses(NumBatches(valid_n, config.batch_size)), valid_n))
        /\ REq(val_result[1], [n |-> SumOver([i \in 1..valid_n |-> vdata[i].loss], 1..valid_n), d |-> valid_n])
        /\ REq(val_result[2], [n |-> Cardinality({i \in 1..valid_n : PredictsLabel(i)}), d |-> valid_n])

C8_Witness ==
    /\ val_result # <<>>
    /\ valid_n = 3 /\ config.batch_size = 2
    /\ vdata[1].loss = 1 /\ vdata[2].loss = 1 /\ vdata[3].loss = 0
    /\ val_result[1] = [n |-> 2, d |-> 3]
    /\ val_result[2] = [n |-> 1, d |-> 3]

(* C9: no step of a running train_model call changes config; only the     *)
(* notebook's cells, between calls, assign its fields.                     *)
C9_ConfigFrame == [][status = "running" => config' = config]_vars

C9_Witness ==
    /\ status = "returned" /\ call = 2
    /\ config.lr = 10 /\ config.dropout = 10
    /\ Count("wandb.log", Len(trace)) >= 2


(* C11: with {epochs=1, batch_size=128, slice_size=10000, valid_pct=0.2}   *)
(* the training set has 8000 examples, n_steps_per_epoch is 63, and a      *)
(* completed train_model call has logged exactly 63 per-step records and   *)
(* then exactly 1 validation record.                                       *)
C11_ExampleScenario ==
    status = "returned" =>
        /\ train_n = 8000
        /\ n_steps_per_epoch = 63
        /\ NumStepLogs(Len(trace)) = 63
        /\ NumValLogs(Len(trace)) = 1
        /\ Count("wandb.log", Len(trace)) = 64
        /\ IsValLog(Len(trace) - 1)
        /\ \A i \in 1..Len(trace) : IsStepLog(i) => i < Len(trace) - 1

C11_Witness ==
    /\ status = "returned" /\ config = ExampleConfig
    /\ NumStepLogs(Len(trace)) = 63
    /\ \E i \in 1..Len(trace) : IsStepLog(i) /\ trace[i].arg["train/example_ct"] = 8000


(* C12: every forward pass of a training step runs with the model in       *)
(* training mode, also in epochs that follow a validation pass; every      *)
(* forward pass of validate_model runs in evaluation mode; and the mode    *)
(* changes only at model.train() in train_model, at model.eval() in        *)
(* validate_model, or when a new call builds a new model.                  *)
C12_ModelModes ==
    /\ [][(At("forward") /\ n_fwd' # n_fwd) => model.mode = "train"]_vars
    /\ [][(At("val_batch") /\ n_fwd' # n_fwd) => model.mode = "eval"]_vars
    /\ [][(model'.mode # model.mode /\ call' = call) =>
             \/ At("get_dataloaders") /\ model'.mode = "train"
             \/ At("epoch") /\ model'.mode = "train"
             \/ At("validate_model") /\ model'.mode = "eval"]_vars
    /\ [](\A i \in 1..Len(trace) : trace[i].op = "forward" =>
             (trace[i].arg = "train" <=> trace[i - 1].op = "train_dl.next"))

C12_Witness ==
    /\ At("zero_grad") /\ epoch = 1
    /\ model.mode = "train"
    /\ Count("model.eval", Len(trace)) = 1
    /\ \E i \in 1..Len(trace) : trace[i].op = "forward" /\ trace[i].arg = "eval"

(* C13: the parameters change only in the optimizer step of a training     *)
(* batch: no step of validate_model changes them, and while a call runs    *)
(* they are the result of exactly the optimizer steps the call has made,   *)
(* so after a validation pass they are those left by the epoch's last      *)
(* training step.                                                          *)
C13_ParamsFrame ==
    /\ [][(status = "running" /\ pc \in {"validate_model", "val_batch", "val_return", "wandb.log_val"})
             => model'.params = model.params]_vars
    /\ [][(model'.params # model.params /\ call' = call) =>
             (At("optimizer.step") \/ At("get_dataloaders"))]_vars
    /\ []((status = "running" /\ pc \notin {"wandb.init", "get_dataloaders"}) =>
             model.params = Count("optimizer.step", Len(trace)))

C13_Witness ==
    /\ At("wandb.log_val") /\ epoch = 1
    /\ model.params = 4
    /\ val_result # <<>>

(* the calls a training step makes after taking its batch, in order *)
StepCalls == <<"forward", "zero_grad", "backward", "optimizer.step", "wandb.log">>

(* C14: after each training batch is taken the calls made are, in this     *)
(* order and once each, the forward pass, zero_grad, backward, the         *)
(* optimizer step and the step's wandb.log, and only then the next batch   *)
(* is taken; none of these calls is made anywhere else.                    *)
C14_StepOrder ==
    /\ \A i \in 1..Len(trace) : trace[i].op = "train_dl.next" =>
          \A k \in 1..5 : i + k <= Len(trace) =>
              /\ trace[i + k].op = StepCalls[k]
              /\ k = 5 => IsStepLog(i + k)
    /\ \A j \in 1..Len(trace) :
          /\ (trace[j].op = "forward" /\ trace[j].arg = "train") => trace[j - 1].op = "train_dl.next"
          /\ trace[j].op = "zero_grad" => (j > 2 /\ trace[j - 2].op = "train_dl.next")
          /\ trace[j].op = "backward" => (j > 3 /\ trace[j - 3].op = "train_dl.next")
          /\ trace[j].op = "optimizer.step" => (j > 4 /\ trace[j - 4].op = "train_dl.next")
          /\ IsStepLog(j) => (j > 5 /\ trace[j - 5].op = "train_dl.next")
    /\ status = "returned" =>
          /\ \A k \in 2..4 : Count(StepCalls[k], Len(trace)) = Count("train_dl.next", Len(trace))
          /\ NumStepLogs(Len(trace)) = Count("train_dl.next", Len(trace))

C14_Witness ==
    /\ status = "returned"
    /\ Count("zero_grad", Len(trace)) = 4
    /\ Count("optimizer.step", Len(trace)) = 4

(* per-step records carrying epoch number k *)
StepLogsOfEpoch(k) == {i \in 1..Len(trace) : IsStepLog(i) /\ trace[i].arg["train/epoch"] = k}

(* training batches taken during the k-th epoch *)
BatchesOfEpoch(k) == {i \in 1..Len(trace) : trace[i].op = "train_dl.next" /\ Count("model.train", i) = k}

(* C15: n_steps_per_epoch is the ceiling of training-set size / batch_size *)
(* and, for every epoch whose validation record is logged, the epoch has   *)
(* exactly n_steps_per_epoch per-step records, its batches hold exactly    *)
(* the training-set size in examples, and none is empty.                   *)
C15_StepsPerEpoch ==
    (status # "none" /\ NumValLogs(Len(trace)) >= 1) =>
        /\ (n_steps_per_epoch - 1) * config.batch_size < train_n
        /\ train_n <= n_steps_per_epoch * config.batch_size
        /\ \A k \in 1..NumValLogs(Len(trace)) :
              /\ Cardinality(StepLogsOfEpoch(k)) = n_steps_per_epoch
              /\ Cardinality(BatchesOfEpoch(k)) = n_steps_per_epoch
              /\ SumOver([i \in BatchesOfEpoch(k) |-> trace[i].arg], BatchesOfEpoch(k)) = train_n
              /\ \A i \in BatchesOfEpoch(k) : trace[i].arg >= 1 /\ trace[i].arg <= config.batch_size

C15_Witness ==
    /\ status = "returned" /\ config.epochs = 2
    /\ train_n = 3 /\ config.batch_size = 2
    /\ Cardinality(StepLogsOfEpoch(2)) = 2
    /\ \E i \in BatchesOfEpoch(2) : trace[i].arg = 1

(* C16: in the first call and in every later one, the first per-step       *)
(* record carries the size of the call's first batch, every record the     *)
(* examples seen in this call only, and the last per-step record of a      *)
(* completed call carries epochs * training-set size; the model of the     *)
(* call starts with no optimizer step applied.                             *)
C16_RunsIndependent ==
    /\ \A i \in 1..Len(trace) : IsStepLog(i) =>
          /\ NumStepLogs(i) = 1 => trace[i].arg["train/example_ct"] = trace[i - 5].arg
          /\ trace[i].arg["train/example_ct"] = ExamplesSeen(i)
          /\ (status = "returned" /\ NumStepLogs(i) = NumStepLogs(Len(trace))) =>
                trace[i].arg["train/example_ct"] = config.epochs * train_n
    /\ \A i \in 1..Len(trace) : (trace[i].op = "optimizer.step" /\ Count("optimizer.step", i) = 1) =>
          trace[i].arg = 1
    /\ (At("epoch") /\ epoch = 0) => (example_ct = 0 /\ model.params = 0)

C16_Witness ==
    /\ status = "returned" /\ call = 2
    /\ config.epochs = 1 /\ train_n = 3 /\ config.batch_size = 2
    /\ \E i \in 1..Len(trace) : IsStepLog(i) /\ NumStepLogs(i) = 1 /\ trace[i].arg["train/example_ct"] = 2
    /\ \E i \in 1..Len(trace) : IsStepLog(i) /\ trace[i].arg["train/example_ct"] = 3


(* the call has raised after its wandb.init returned and before it reached *)
(* its wandb.finish()                                                      *)
AbortedAfterInit ==
    /\ status = "raised"
    /\ exc \notin {"wandb.init", "wandb.finish"}

(* C17: a train_model call aborted by a failure after wandb.init returned  *)
(* has made no wandb.finish call and never makes one: its Run stays open,  *)
(* and the only step that follows is the next train_model call, which      *)
(* reaches its own wandb.init with that Run still not finished.            *)
C17_RunLeftOpen ==
    /\ [](AbortedAfterInit =>
             /\ trace # <<>> /\ trace[1].op = "wandb.init"
             /\ Count("wandb.finish", Len(trace)) = 0
             /\ wandb_open)
    /\ [][AbortedAfterInit =>
             /\ call' = call + 1
             /\ status' = "running" /\ pc' = "wandb.init"
             /\ trace' = <<>>
             /\ wandb_open']_vars

C17_Witness ==
    /\ call = 2
    /\ At("wandb.init")
    /\ trace = <<>>
    /\ wandb_open

(* C18: with epochs = 0 a train_model call makes no call other than        *)
(* wandb.init and wandb.finish; when it has returned it has made exactly   *)
(* these two, in this order, no forward pass, and the Run is closed.       *)
C18_ZeroEpochs ==
    (config.epochs = 0 /\ status # "none") =>
        /\ \A i \in 1..Len(trace) : trace[i].op \in {"wandb.init", "wandb.finish"}
        /\ n_fwd = 0
        /\ pc \in {"wandb.init", "get_dataloaders", "epoch", "wandb.finish", "done"}
        /\ status = "returned" =>
              /\ [i \in 1..Len(trace) |-> trace[i].op] = <<"wandb.init", "wandb.finish">>
              /\ ~wandb_open

C18_Witness ==
    /\ config.epochs = 0
    /\ status = "returned"
    /\ Len(trace) = 2
    /\ trace[2].op = "wandb.finish"

(* C19: with an empty validation set validate_model never yields a pair    *)
(* and no validation record is ever logged: the call ends with the         *)
(* ZeroDivisionError of the division by the dataset size, raised in the    *)
(* first epoch after all n_steps_per_epoch per-step records of that epoch  *)
(* and without any validation batch; a call that returns after at least    *)
(* one epoch had a non-empty validation set.                               *)
C19_EmptyValidation ==
    /\ exc = "ZeroDivisionError" =>
          /\ status = "raised"
          /\ valid_n = 0
          /\ epoch = 0 /\ Count("model.train", Len(trace)) = 1
          /\ NumStepLogs(Len(trace)) = n_steps_per_epoch
          /\ NumStepLogs(Len(trace)) = NumBatches(train_n, config.batch_size)
          /\ Count("model.eval", Len(trace)) = 1
          /\ vstep = 0
          /\ val_result = <<>>
          /\ NumValLogs(Len(trace)) = 0
          /\ Count("wandb.finish", Len(trace)) = 0
    /\ (status = "running" /\ valid_n = 0 /\ pc \notin {"wandb.init", "get_dataloaders"}) =>
          /\ val_result = <<>>
          /\ NumValLogs(Len(trace)) = 0
          /\ pc \notin {"wandb.log_val", "wandb.finish"} \/ config.epochs = 0
    /\ (status = "returned" /\ config.epochs >= 1) => valid_n # 0

C19_Witness ==
    /\ exc = "ZeroDivisionError"
    /\ config.epochs = 2
    /\ NumStepLogs(Len(trace)) = 2
    /\ trace[Len(trace)].op = "model.eval"

====
